---- MODULE Spec2Model ----
(***************************************************************************)
(* A model of the trigram index of package trigram (src/trigram.go).       *)
(*                                                                         *)
(* A string is a sequence of byte values, a trigram (type T) the integer   *)
(* byte0<<16 | byte1<<8 | byte2, a DocID a natural number, and an Index a  *)
(* function from the keys present in the Go map to postings lists.  A nil  *)
(* slice and an empty slice are both <<>>: the map never holds an empty    *)
(* non-nil list (InsertTrigrams and NewIndex store non-empty lists, Delete *)
(* removes the key instead of storing an empty list, Prune stores nil).    *)
(***************************************************************************)
EXTENDS Integers, Sequences, FiniteSets, Bags, TLC

\* ------------------------------------------------------------------ bounds

\* Longest string (document or query), in bytes.
MaxLen == 4

\* Most documents handed to NewIndex.
MaxDocs == 2

\* Largest document ID a caller passes to Insert / Delete.
MaxId == 2

\* Most IDs ever handed to one index (by NewIndex, Add and Insert together).
MaxLog == 3

\* Longest trigram list handed to AddTrigrams, InsertTrigrams, QueryTrigrams.
MaxTs == 2

\* -------------------------------------------------------------- data types

\* Documents and queries are the substrings of a seed text, "aaaab", of at
\* most MaxLen bytes: strings with no trigram, with one, with the same
\* trigram twice, and with two different ones.
Text == <<97, 97, 97, 97, 98>>

Strings ==
    {s \in {SubSeq(Text, i, j) : i \in 1..(Len(Text) + 1), j \in 0..Len(Text)} :
        Len(s) <= MaxLen}

DocIDs == 0..MaxId

\* const tAllDocIDs T = 0xFFFFFFFF.  The 32 bits are held as the signed value
\* -1, 4294967295 being outside the range of TLC's integers; all the code
\* uses is that it differs from T3 of any three bytes.
tAllDocIDs == -1

\* A packing that leaves out the third byte.
T3NoLowByte(b0, b1, b2) == b0 * 65536 + b1 * 256

\* T(uint32(s[i])<<16 | uint32(s[i+1])<<8 | uint32(s[i+2])): the three bytes
\* occupy disjoint bit ranges, so the bitwise or is the sum.
T3(b0, b1, b2) == b0 * 65536 + b1 * 256 + b2

\* -------------------------------------------------------------- extraction

appendIfUnique(t, n) ==
    IF \E i \in 1..Len(t) : t[i] = n THEN t ELSE Append(t, n)

\* for i := 0; i <= len(s)-3; i++ { trigrams = append(trigrams, t) }
ExtractAll(s, trigrams) ==
    trigrams \o [i \in 1..(Len(s) - 2) |-> T3(s[i], s[i + 1], s[i + 2])]

RECURSIVE ExtractFrom(_, _, _)
ExtractFrom(s, i, trigrams) ==
    IF i > Len(s) - 2 THEN trigrams
    ELSE ExtractFrom(s, i + 1,
                     appendIfUnique(trigrams, T3(s[i], s[i + 1], s[i + 2])))

Extract(s, trigrams) == ExtractFrom(s, 1, trigrams)

\* ------------------------------------------------------------ the Go map

\* idx[k]: the zero value (nil) for a key that is absent.
Get(idx, k) == IF k \in DOMAIN idx THEN idx[k] ELSE <<>>

\* idx[k] = v
Put(idx, k, v) == [x \in (DOMAIN idx) \cup {k} |-> IF x = k THEN v ELSE idx[x]]

\* delete(idx, k)
Del(idx, k) == [x \in (DOMAIN idx) \ {k} |-> idx[x]]

\* make(Index)
EmptyIndex == [x \in {} |-> <<>>]

\* ---------------------------------------------------------------- mutation

\* A guard that compares the new ID with the head of the list, not its tail.
tailGuardHead(idxt, id) == Len(idxt) = 0 \/ idxt[1] # id

\* if l == 0 || idxt[l-1] != id { idx[t] = append(idxt, id) }
tailGuard(idxt, id) == Len(idxt) = 0 \/ idxt[Len(idxt)] # id

\* for _, t := range ts { ... }: the loop NewIndex and InsertTrigrams share.
RECURSIVE appendPostings(_, _, _, _)
appendPostings(idx, ts, i, id) ==
    IF i > Len(ts) THEN idx
    ELSE LET idxt == Get(idx, ts[i])
         IN  appendPostings(IF tailGuard(idxt, id)
                               THEN Put(idx, ts[i], Append(idxt, id))
                               ELSE idx,
                            ts, i + 1, id)

RECURSIVE buildFrom(_, _, _)
buildFrom(docs, i, idx) ==
    IF i > Len(docs) THEN idx
    ELSE buildFrom(docs, i + 1,
                   appendPostings(idx, ExtractAll(docs[i], <<>>), 1, i - 1))

\* allDocIDs after the loop: DocID(id) for every position id of docs.
allDocIDsOf(docs) == [i \in 1..Len(docs) |-> i - 1]

NewIndex(docs) == Put(buildFrom(docs, 1, EmptyIndex), tAllDocIDs, allDocIDsOf(docs))

InsertTrigrams(idx, ts, id) ==
    LET i1 == appendPostings(idx, ts, 1, id)
    IN  Put(i1, tAllDocIDs, Append(Get(i1, tAllDocIDs), id))

Insert(idx, s, id) == InsertTrigrams(idx, ExtractAll(s, <<>>), id)

\* id := DocID(len(idx[tAllDocIDs]))
nextID(idx) == Len(Get(idx, tAllDocIDs))

Add(idx, s) == Insert(idx, s, nextID(idx))

\* sort.Search(n, f) with f(i) = ids[i] >= id: the binary search of the
\* standard library, on 0-based positions i..j; it is run here on lists
\* that need not be sorted, so it is modelled step by step.
RECURSIVE searchFrom(_, _, _, _)
searchFrom(ids, id, i, j) ==
    IF i >= j THEN i
    ELSE LET h == (i + j) \div 2
         IN  IF ids[h + 1] >= id THEN searchFrom(ids, id, i, h)
                                 ELSE searchFrom(ids, id, h + 1, j)

RECURSIVE searchAfterFrom(_, _, _, _)
searchAfterFrom(ids, id, i, j) ==
    IF i >= j THEN i
    ELSE LET h == (i + j) \div 2
         IN  IF ids[h + 1] > id THEN searchAfterFrom(ids, id, i, h)
                                ELSE searchAfterFrom(ids, id, h + 1, j)

\* A search with f(i) = ids[i] > id: it stops one place after id.
SearchAfter(ids, id) == searchAfterFrom(ids, id, 0, Len(ids))

Search(ids, id) == searchFrom(ids, id, 0, Len(ids))

\* copy(ids[i:], ids[i+1:]); ids[:len(ids)-1]   (i is 0-based)
removeAt(ids, i) == [k \in 1..(Len(ids) - 1) |-> IF k <= i THEN ids[k] ELSE ids[k + 1]]

\* One iteration of Delete's loop, for trigram t.
deleteOne(idx, t, id) ==
    LET ids == Get(idx, t)
    IN  IF ids = <<>> THEN idx
        ELSE IF Len(ids) = 1 /\ ids[1] = id THEN Del(idx, t)
        ELSE LET i == Search(ids, id)
             IN  IF i < Len(ids) /\ ids[i + 1] = id
                    THEN Put(idx, t, removeAt(ids, i))
                    ELSE idx

RECURSIVE deleteFrom(_, _, _, _)
deleteFrom(idx, ts, i, id) ==
    IF i > Len(ts) THEN idx
    ELSE deleteFrom(deleteOne(idx, ts[i], id), ts, i + 1, id)

Delete(idx, s, id) == deleteFrom(idx, ExtractAll(s, <<>>), 1, id)

\* -------------------------------------------------------------------- Sort

\* sort.IsSorted(docList(v)): no element is Less than the one before it.
IsSorted(v) == \A i \in 1..(Len(v) - 1) : ~(v[i + 1] < v[i])

RECURSIVE insertInOrder(_, _)
insertInOrder(v, x) ==
    IF v = <<>> THEN <<x>>
    ELSE IF x < Head(v) THEN <<x>> \o v
    ELSE <<Head(v)>> \o insertInOrder(Tail(v), x)

\* sort.Sort(docList(v)): the ascending arrangement of v's elements (the
\* elements are plain integers, so every sorting algorithm gives the same list).
RECURSIVE sortDocList(_)
sortDocList(v) ==
    IF v = <<>> THEN <<>> ELSE insertInOrder(sortDocList(Tail(v)), Head(v))

\* The test the wrong way round: only the sorted lists are sorted.
sortListInverted(v) == IF IsSorted(v) THEN sortDocList(v) ELSE v

\* if !sort.IsSorted(dl) { sort.Sort(dl) }
sortList(v) == IF IsSorted(v) THEN v ELSE sortDocList(v)

\* A Sort that leaves the list of all document IDs out.
SortPostingsOnly(idx) ==
    [k \in DOMAIN idx |-> IF k = tAllDocIDs THEN idx[k] ELSE sortList(idx[k])]

Sort(idx) == [k \in DOMAIN idx |-> sortList(idx[k])]

\* ------------------------------------------------------------------- Prune

\* int(x) for the float x = num/den: truncation toward zero.
truncate(num, den) ==
    IF num >= 0 THEN num \div den ELSE -((-num) \div den)

\* maxDocs := int(pct * float64(len(idx[tAllDocIDs]))), pct = <<num, den>>
\* an exact fraction with den > 0 (floating-point rounding is not modelled).
maxDocs(idx, pct) == truncate(pct[1] * Len(Get(idx, tAllDocIDs)), pct[2])

overLimit(idx, pct, k) == k # tAllDocIDs /\ Len(idx[k]) > maxDocs(idx, pct)

\* The map after Prune: idx[k] = nil for every key over the limit.
Prune(idx, pct) ==
    [k \in DOMAIN idx |-> IF overLimit(idx, pct, k) THEN <<>> ELSE idx[k]]

\* The count Prune returns.
pruned(idx, pct) == Cardinality({k \in DOMAIN idx : overLimit(idx, pct, k)})

\* --------------------------------------------------------------- intersect

\* A run of intersect works on memory: result is the slice mem[0:n] of a
\* backing array mem; a is either a list of its own (aval) or, when alias
\* holds, the slice mem[0:la] of the same array (Filter passes docs = result
\* from its second intersection on).  Positions are 0-based as in the code.
readA(st, i) == IF st.alias THEN st.mem[i + 1] ELSE st.aval[i + 1]

\* result = append(result, x): in place while the capacity lasts, else a
\* new array (a, if it was a slice of the old one, keeps the old contents).
appendResult(st, x) ==
    IF st.n < Len(st.mem)
       THEN [st EXCEPT !.mem = [st.mem EXCEPT ![st.n + 1] = x], !.n = st.n + 1]
       ELSE [st EXCEPT !.mem = SubSeq(st.mem, 1, st.n) \o <<x>>,
                       !.n = st.n + 1,
                       !.alias = FALSE,
                       !.aval = IF st.alias THEN SubSeq(st.mem, 1, st.la)
                                            ELSE st.aval]

\* An index expression a[i] or b[i] outside 0..len-1 panics.
panics(st) == [st EXCEPT !.panic = TRUE]

\* for aidx < len(a) && bidx < len(b)
scanCond(aidx, bidx, la, lb) == aidx < la /\ bidx < lb

\* if aidx >= len(a) || bidx >= len(b) { break scan }   (after a match)
matchBreak(aidx, bidx, la, lb) == aidx >= la \/ bidx >= lb

\* A test that lets aidx reach len(a).
aBreakLate(aidx, la) == aidx > la

\* if aidx >= len(a) { break scan }
aBreak(aidx, la) == aidx >= la

\* if bidx >= len(b) { break scan }
bBreak(bidx, lb) == bidx >= lb

inRange(st, b, aidx, bidx) ==
    aidx >= 0 /\ aidx < st.la /\ bidx >= 0 /\ bidx < Len(b)

RECURSIVE scan(_, _, _, _), skipA(_, _, _, _), skipB(_, _, _, _)
\* The head of the labelled loop and the test for a match.
scan(st, b, aidx, bidx) ==
    IF ~scanCond(aidx, bidx, st.la, Len(b)) THEN st
    ELSE IF ~inRange(st, b, aidx, bidx) THEN panics(st)
    ELSE IF readA(st, aidx) = b[bidx + 1]
         THEN LET st2 == appendResult(st, readA(st, aidx))
              IN  IF matchBreak(aidx + 1, bidx + 1, st.la, Len(b)) THEN st2
                  ELSE skipA(st2, b, aidx + 1, bidx + 1)
         ELSE skipA(st, b, aidx, bidx)

\* for a[aidx] < b[bidx] { aidx++; ... }
skipA(st, b, aidx, bidx) ==
    IF ~inRange(st, b, aidx, bidx) THEN panics(st)
    ELSE IF readA(st, aidx) < b[bidx + 1]
         THEN IF aBreak(aidx + 1, st.la) THEN st
              ELSE skipA(st, b, aidx + 1, bidx)
         ELSE skipB(st, b, aidx, bidx)

\* for bidx < len(b) && a[aidx] > b[bidx] { bidx++; ... }
skipB(st, b, aidx, bidx) ==
    IF bidx < Len(b)
       THEN IF ~inRange(st, b, aidx, bidx) THEN panics(st)
            ELSE IF readA(st, aidx) > b[bidx + 1]
                 THEN IF bBreak(bidx + 1, Len(b)) THEN st
                      ELSE skipB(st, b, aidx, bidx + 1)
                 ELSE scan(st, b, aidx, bidx)
       ELSE scan(st, b, aidx, bidx)

\* intersect(result, a, b) with result = mem[0:n]; a = mem[0:la] when alias
\* holds and a = aval otherwise.  Yields the memory after the call, the
\* length n of the returned slice mem[0:n], and whether the call panicked.
intersect(mem, n, alias, aval, la, b) ==
    scan([mem |-> mem, n |-> n, alias |-> alias, aval |-> aval, la |-> la,
          panic |-> FALSE],
         b, 0, 0)

\* The list intersect returns for lists a and b that share no memory.
intersectLists(a, b) ==
    LET st == intersect(<<>>, 0, FALSE, a, Len(a), b)
    IN  [panic |-> st.panic, ids |-> SubSeq(st.mem, 1, st.n)]

\* ------------------------------------------------------------------ Filter

\* The loop of Filter from its i-th trigram on.  docs is aval while alias is
\* false and mem[0:la] after the first intersection (docs = result).  Yields
\* the returned list, the array of result as the loop left it, and whether
\* an intersection panicked.
RECURSIVE filterFrom(_, _, _, _, _, _, _)
filterFrom(idx, ts, i, mem, alias, aval, la) ==
    IF i > Len(ts)
       THEN [panic |-> FALSE, mem |-> mem,
             ids |-> IF alias THEN SubSeq(mem, 1, la) ELSE aval]
    ELSE IF ts[i] \notin DOMAIN idx
         THEN [panic |-> FALSE, mem |-> mem, ids |-> <<>>]
    ELSE IF idx[ts[i]] = <<>>
         THEN filterFrom(idx, ts, i + 1, mem, alias, aval, la)
    ELSE LET st == intersect(mem, 0, alias, aval, la, idx[ts[i]])
         IN  IF st.panic THEN [panic |-> TRUE, mem |-> st.mem, ids |-> <<>>]
             ELSE filterFrom(idx, ts, i + 1, st.mem, TRUE, <<>>, st.n)

\* A Filter with result := docs[:0]: it filters in the caller's array.
FilterInPlace(idx, docs, ts) ==
    LET r == filterFrom(idx, ts, 1, docs, TRUE, <<>>, Len(docs))
    IN  [panic |-> r.panic, ids |-> r.ids, arg |-> r.mem]

\* result := make([]DocID, len(docs)): an array of its own, of len(docs) zero
\* values.  Every write of Filter goes to it, so the array behind the
\* caller's docs (arg) holds after the call what it held before.
Filter(idx, docs, ts) ==
    LET r == filterFrom(idx, ts, 1, [i \in 1..Len(docs) |-> 0], FALSE, docs,
                        Len(docs))
    IN  [panic |-> r.panic, ids |-> r.ids, arg |-> docs]

\* ----------------------------------------------------------- QueryTrigrams

\* freq = append(freq, len(d)) for every t of ts
freqOf(idx, ts) == [i \in 1..Len(ts) |-> Len(idx[ts[i]])]

\* sort.Sort(tfList{ts, freq}) orders the trigrams by ascending frequency and
\* is not stable: every arrangement with ascending frequencies can result.
\* An arrangement is a permutation p: place i holds the old ts[p[i]].  (The
\* sort runs only when every trigram is a key; Get keeps Orders defined for
\* the other lists too, where QueryTrigrams returns before it reads p.)
Orders(idx, ts) ==
    {p \in [1..Len(ts) -> 1..Len(ts)] :
        /\ \A i, j \in 1..Len(ts) : i # j => p[i] # p[j]
        /\ \A i \in 1..(Len(ts) - 1) :
              Len(Get(idx, ts[p[i]])) <= Len(Get(idx, ts[p[i + 1]]))}

\* for freq[nonzero] == 0 { nonzero++ }: the 0-based place the scan stops at,
\* or len(freq) when it runs off the end of freq (index out of range).
RECURSIVE firstNonzero(_, _)
firstNonzero(freq, nonzero) ==
    IF nonzero >= Len(freq) THEN Len(freq)
    ELSE IF freq[nonzero + 1] = 0 THEN firstNonzero(freq, nonzero + 1)
    ELSE nonzero

\* QueryTrigrams(ts), the sort having arranged ts as p \in Orders(idx, ts).
QueryTrigrams(idx, ts, p) ==
    IF Len(ts) = 0 THEN [panic |-> FALSE, ids |-> Get(idx, tAllDocIDs)]
    ELSE IF \E i \in 1..Len(ts) : ts[i] \notin DOMAIN idx
         THEN [panic |-> FALSE, ids |-> <<>>]
    ELSE LET sorted == [i \in 1..Len(ts) |-> ts[p[i]]]
             nonzero == firstNonzero(freqOf(idx, sorted), 0)
         IN  IF nonzero >= Len(ts) THEN [panic |-> TRUE, ids |-> <<>>]
             ELSE LET r == Filter(idx, idx[sorted[nonzero + 1]],
                                  SubSeq(sorted, nonzero + 2, Len(sorted)))
                  IN  [panic |-> r.panic, ids |-> r.ids]

\* ------------------------------------------------------------ state machine

\* idx      the Index the caller holds
\* log      every ID handed to the index, in the order of the calls
\* nsorted  how many IDs log held when Sort last ran (0 before any Sort)
\* op       the last operation: its name, arguments and result
VARIABLES idx, log, nsorted, op

vars == <<idx, log, nsorted, op>>

DocLists == UNION {[1..n -> Strings] : n \in 0..MaxDocs}

\* Every trigram of a string of Strings.
Trigrams == {T3(Text[i], Text[i + 1], Text[i + 2]) : i \in 1..(Len(Text) - 2)}

TrigramLists == UNION {[1..n -> Trigrams] : n \in 0..MaxTs}

\* The fractions handed to Prune, as <<numerator, denominator>>: 0, 1/2, 1
\* and, a float64 being free to be negative, -1/2.
Pcts == <<<<0, 1>>, <<1, 2>>, <<1, 1>>, <<-1, 2>>>>

Init ==
    \E docs \in DocLists :
        /\ idx = NewIndex(docs)
        /\ log = allDocIDsOf(docs)
        /\ nsorted = 0
        /\ op = [name |-> "NewIndex", docs |-> docs]

\* Inserting operations stop once MaxLog IDs have been handed to the index.
CanGrow == Len(log) < MaxLog

DoAdd(s) ==
    /\ CanGrow
    /\ idx' = Add(idx, s)
    /\ log' = Append(log, nextID(idx))
    /\ op' = [name |-> "Add", id |-> nextID(idx)]
    /\ UNCHANGED nsorted

DoInsert(s, id) ==
    /\ CanGrow
    /\ idx' = Insert(idx, s, id)
    /\ log' = Append(log, id)
    /\ op' = [name |-> "Insert", id |-> id]
    /\ UNCHANGED nsorted

DoInsertTrigrams(ts, id) ==
    /\ CanGrow
    /\ idx' = InsertTrigrams(idx, ts, id)
    /\ log' = Append(log, id)
    /\ op' = [name |-> "InsertTrigrams", id |-> id]
    /\ UNCHANGED nsorted

DoDelete(s, id) ==
    /\ idx' = Delete(idx, s, id)
    /\ op' = [name |-> "Delete", id |-> id]
    /\ UNCHANGED <<log, nsorted>>

DoSort ==
    /\ idx' = Sort(idx)
    /\ nsorted' = Len(log)
    /\ op' = [name |-> "Sort"]
    /\ UNCHANGED log

DoPrune(pct) ==
    /\ idx' = Prune(idx, pct)
    /\ op' = [name |-> "Prune", pct |-> pct, ret |-> pruned(idx, pct)]
    /\ UNCHANGED <<log, nsorted>>

DoQuery(s) ==
    /\ \E p \in Orders(idx, Extract(s, <<>>)) :
           op' = [name |-> "Query", n |-> Len(s),
                  ret |-> QueryTrigrams(idx, Extract(s, <<>>), p)]
    /\ UNCHANGED <<idx, log, nsorted>>

DoQueryTrigrams(ts) ==
    /\ \E p \in Orders(idx, ts) :
           op' = [name |-> "QueryTrigrams", n |-> Len(ts),
                  ret |-> QueryTrigrams(idx, ts, p)]
    /\ UNCHANGED <<idx, log, nsorted>>

Next ==
    \/ \E s \in Strings : DoAdd(s)
    \/ \E s \in Strings, id \in DocIDs : DoInsert(s, id)
    \/ \E ts \in TrigramLists, id \in DocIDs : DoInsertTrigrams(ts, id)
    \/ \E s \in Strings, id \in DocIDs : DoDelete(s, id)
    \/ DoSort
    \/ \E i \in 1..Len(Pcts) : DoPrune(Pcts[i])
    \/ \E s \in Strings : DoQuery(s)
    \/ \E ts \in TrigramLists : DoQueryTrigrams(ts)

Spec == Init /\ [][Next]_vars

\* --------------------------- mutations with the IDs handed over in order

\* id is not below the ID the index was handed last: the caller of Add,
\* Insert and InsertTrigrams passes its IDs in order.
InOrder(id) == IF log = <<>> THEN TRUE ELSE log[Len(log)] <= id

NextOrdered ==
    \/ \E s \in Strings : InOrder(nextID(idx)) /\ DoAdd(s)
    \/ \E s \in Strings, id \in DocIDs : InOrder(id) /\ DoInsert(s, id)
    \/ \E ts \in TrigramLists, id \in DocIDs :
           InOrder(id) /\ DoInsertTrigrams(ts, id)
    \/ \E s \in Strings, id \in DocIDs : DoDelete(s, id)
    \/ \E i \in 1..Len(Pcts) : DoPrune(Pcts[i])

SpecOrdered == Init /\ [][NextOrdered]_vars

\* ------------------------------------------- NewIndex, then queries only

\* Query(s) on the index NewIndex(docs) returned; op keeps docs for the
\* comparison of the result with the documents.
DoQueryBuilt(s) ==
    /\ op.name \in {"NewIndex", "QueryBuilt"}
    /\ \E p \in Orders(idx, Extract(s, <<>>)) :
           op' = [name |-> "QueryBuilt", docs |-> op.docs, s |-> s,
                  ret |-> QueryTrigrams(idx, Extract(s, <<>>), p)]
    /\ UNCHANGED <<idx, log, nsorted>>

NextBuilt == \E s \in Strings : DoQueryBuilt(s)

SpecBuilt == Init /\ [][NextBuilt]_vars

\* ------------------------------------- NewIndex, one Insert, its Delete

\* Insert(s, id) on the index NewIndex returned; op keeps the index as it
\* was before the call.
DoInsertFresh(s, id) ==
    /\ op.name = "NewIndex"
    /\ idx' = Insert(idx, s, id)
    /\ log' = Append(log, id)
    /\ op' = [name |-> "InsertFresh", s |-> s, id |-> id, before |-> idx]
    /\ UNCHANGED nsorted

\* Delete(s, id) of the string and ID just inserted.
DoDeleteInserted ==
    /\ op.name = "InsertFresh"
    /\ idx' = Delete(idx, op.s, op.id)
    /\ op' = [op EXCEPT !.name = "DeleteInserted"]
    /\ UNCHANGED <<log, nsorted>>

NextInsDel ==
    \/ \E s \in Strings, id \in DocIDs : DoInsertFresh(s, id)
    \/ DoDeleteInserted

SpecInsDel == Init /\ [][NextInsDel]_vars

\* ---------------------------------------------------- Filter on its own

RECURSIVE ascending(_)
\* The ascending list of the elements of a finite set of numbers.
ascending(S) ==
    IF S = {} THEN <<>>
    ELSE LET m == CHOOSE x \in S : \A y \in S : x <= y
         IN  <<m>> \o ascending(S \ {m})

\* The ascending duplicate-free lists of document IDs.
AscLists == {ascending(S) : S \in SUBSET DocIDs}

\* Filter(docs, ts) with a list docs of the caller's own.
DoFilter(docs, ts) ==
    /\ op' = [name |-> "Filter", docs |-> docs, ts |-> ts,
              ret |-> Filter(idx, docs, ts)]
    /\ UNCHANGED <<idx, log, nsorted>>

\* Filter(idx[t], ts), as QueryTrigrams calls it: docs is the postings list
\* of t itself, which holds after the call what the call left in its array.
DoFilterPostings(t, ts) ==
    /\ t \in DOMAIN idx
    /\ LET r == Filter(idx, idx[t], ts)
       IN  /\ idx' = Put(idx, t, r.arg)
           /\ op' = [name |-> "Filter", docs |-> idx[t], ts |-> ts, ret |-> r]
    /\ UNCHANGED <<log, nsorted>>

NextFilter ==
    \/ \E s \in Strings, id \in DocIDs : DoDelete(s, id)
    \/ \E i \in 1..Len(Pcts) : DoPrune(Pcts[i])
    \/ \E docs \in AscLists, ts \in TrigramLists : DoFilter(docs, ts)
    \/ \E t \in Trigrams, ts \in TrigramLists : DoFilterPostings(t, ts)

SpecFilter == Init /\ [][NextFilter]_vars

\* ------------------------------------------------- intersect on its own

InitIntersect ==
    \E a \in AscLists, b \in AscLists :
        /\ idx = EmptyIndex
        /\ log = <<>>
        /\ nsorted = 0
        /\ op = [name |-> "lists", a |-> a, b |-> b]

DoIntersect ==
    /\ op.name = "lists"
    /\ op' = [name |-> "intersect", a |-> op.a, b |-> op.b,
              ret |-> intersectLists(op.a, op.b)]
    /\ UNCHANGED <<idx, log, nsorted>>

NextIntersect == DoIntersect

SpecIntersect == InitIntersect /\ [][NextIntersect]_vars

\* ------------------------------------------------------------- properties

Range(f) == {f[i] : i \in DOMAIN f}

StrictlyAscending(v) == \A i \in 1..(Len(v) - 1) : v[i] < v[i + 1]

NonDecreasing(v) == \A i \in 1..(Len(v) - 1) : v[i] <= v[i + 1]

UniversalList == Get(idx, tAllDocIDs)

\* The bytes of some trigram of d are those of the j-th trigram of s, for
\* every j: d contains every trigram of s.
ContainsTrigramsOf(d, s) ==
    \A j \in 1..(Len(s) - 2) :
        \E i \in 1..(Len(d) - 2) :
            d[i] = s[j] /\ d[i + 1] = s[j + 1] /\ d[i + 2] = s[j + 2]

\* C1: on the index NewIndex(docs) returns, Query(s) for len(s) >= 3 does not
\* panic and returns exactly the IDs (positions) of the documents that
\* contain every trigram of s, ascending and without duplicates; so it holds
\* the ID of s when s is a document, and is empty when no document has
\* some trigram of s.
C1_QueryBuiltIsExact ==
    (op.name = "QueryBuilt" /\ Len(op.s) >= 3) =>
        /\ ~op.ret.panic
        /\ op.ret.ids =
              ascending({i - 1 : i \in {j \in 1..Len(op.docs) :
                                          ContainsTrigramsOf(op.docs[j], op.s)}})

\* A query of two different trigrams that keeps the second of two documents
\* and drops the first.
C1_Witness ==
    /\ op.name = "QueryBuilt"
    /\ Len(Extract(op.s, <<>>)) >= 2
    /\ Len(op.docs) = 2
    /\ Len(op.docs[1]) >= 3
    /\ op.ret.ids = <<1>>

\* C2: for ascending duplicate-free lists a and b, intersect reads no element
\* past the end of a or b, returns the set intersection of a and b as an
\* ascending duplicate-free list, and returns the same for (b, a).
C2_IntersectIsSetIntersection ==
    op.name = "intersect" =>
        /\ ~op.ret.panic
        /\ StrictlyAscending(op.ret.ids)
        /\ Range(op.ret.ids) = Range(op.a) \cap Range(op.b)
        /\ intersectLists(op.b, op.a) = op.ret

\* Two lists of two IDs with one ID in common.
C2_Witness ==
    /\ op.name = "intersect"
    /\ Len(op.a) = 2
    /\ Len(op.b) = 2
    /\ Len(op.ret.ids) = 1

\* C3 as stated: on the index NewIndex returns, Insert(s, k) then Delete(s, k)
\* leaves every trigram of s with the set of IDs it had before, for every s
\* and every k.
C3_InsertDeleteRestoresAnyID ==
    op.name = "DeleteInserted" =>
        \A t \in Range(ExtractAll(op.s, <<>>)) :
            Range(Get(idx, t)) = Range(Get(op.before, t))

\* C3 amended: the same for every k that NewIndex handed to no document
\* (k >= the number of documents); the lists are then restored exactly, and
\* so is the presence of their keys.
C3_InsertDeleteRestoresNewID ==
    (op.name = "DeleteInserted" /\ op.id >= Len(Get(op.before, tAllDocIDs))) =>
        \A t \in Range(ExtractAll(op.s, <<>>)) :
            /\ Get(idx, t) = Get(op.before, t)
            /\ (t \in DOMAIN idx) = (t \in DOMAIN op.before)

\* A new ID inserted with a string of a repeated trigram into a list that
\* held two IDs, and deleted again.
C3_Witness ==
    /\ op.name = "DeleteInserted"
    /\ op.id >= Len(Get(op.before, tAllDocIDs))
    /\ Len(ExtractAll(op.s, <<>>)) = 2
    /\ Len(Extract(op.s, <<>>)) = 1
    /\ \E t \in Range(ExtractAll(op.s, <<>>)) : Len(Get(op.before, t)) = 2

\* C4: the ID Add assigns is not one the list of all document IDs already
\* held (after Add the list is the earlier list followed by that ID).
C4_AddAssignsUnusedID ==
    op.name = "Add" =>
        \A i \in 1..(Len(UniversalList) - 1) : UniversalList[i] # op.id

\* C5: while the IDs handed to the index (by NewIndex, Add, Insert,
\* InsertTrigrams, in the order of the calls) never decrease, every
\* per-trigram postings list is strictly ascending, so duplicate-free, after
\* every NewIndex, Add, Insert, InsertTrigrams, Delete and Prune, with no
\* Sort in between.
C5_OrderedInsertsKeepListsSorted ==
    NonDecreasing(log) =>
        \A k \in (DOMAIN idx) \ {tAllDocIDs} : StrictlyAscending(idx[k])

\* Three IDs in order, the last one handed over twice in a row, and a list
\* that holds two of them.
C5_Witness ==
    /\ NonDecreasing(log)
    /\ Len(log) = 3
    /\ log[2] = log[3]
    /\ op.name = "InsertTrigrams"
    /\ \E k \in (DOMAIN idx) \ {tAllDocIDs} : Len(idx[k]) = 2

\* floor(num / den) for den > 0.
floorOf(num, den) ==
    IF num >= 0 THEN num \div den ELSE -(((-num) + den - 1) \div den)

\* C6: a step of Prune(p), with maxAllowed = floor(p * |universal list|),
\* leaves every non-empty per-trigram list with at most maxAllowed IDs, the
\* universal list and the set of keys as they were, and returns the number of
\* per-trigram lists that were longer than maxAllowed.
C6_PruneBoundsListsByFloor ==
    [][op'.name = "Prune" =>
         LET maxAllowed ==
                 floorOf(op'.pct[1] * Len(UniversalList), op'.pct[2])
         IN  /\ DOMAIN idx' = DOMAIN idx
             /\ Get(idx', tAllDocIDs) = UniversalList
             /\ \A k \in (DOMAIN idx') \ {tAllDocIDs} :
                    idx'[k] # <<>> => Len(idx'[k]) <= maxAllowed
             /\ op'.ret = Cardinality({k \in (DOMAIN idx) \ {tAllDocIDs} :
                                          Len(idx[k]) > maxAllowed})]_vars

\* C7 as stated: Query(s) for len(s) < 3 returns every ID ever handed to the
\* index in the order of the calls.
C7_ShortQueryInInsertionOrder ==
    (op.name = "Query" /\ op.n < 3) => op.ret.ids = log

\* C7 amended: Query(s) for len(s) < 3 returns exactly the universal list,
\* which holds every ID ever handed to the index, as often as it was handed
\* over and whether or not its document was deleted: first the IDs handed
\* over before the last Sort, ascending, then the later ones in the order of
\* the calls.
C7_ShortQueryReturnsUniversalList ==
    (op.name = "Query" /\ op.n < 3) =>
        /\ ~op.ret.panic
        /\ op.ret.ids = UniversalList
        /\ op.ret.ids = sortDocList(SubSeq(log, 1, nsorted))
                            \o SubSeq(log, nsorted + 1, Len(log))

\* A short query after a Sort that moved IDs and the insertion, after that
\* Sort, of an ID smaller than one before it.
C7_Witness ==
    /\ op.name = "Query"
    /\ op.n < 3
    /\ nsorted = 2
    /\ Len(log) = 3
    /\ op.ret.ids # log
    /\ op.ret.ids[3] < op.ret.ids[2]

\* C8 as stated: after Sort every per-trigram list is ascending and
\* duplicate-free, the universal list is ascending, and Sort again changes
\* nothing.
C8_SortMakesListsDuplicateFree ==
    op.name = "Sort" =>
        /\ \A k \in (DOMAIN idx) \ {tAllDocIDs} : StrictlyAscending(idx[k])
        /\ NonDecreasing(UniversalList)
        /\ Sort(idx) = idx

\* C8 amended: a step of Sort leaves the keys as they were and every list,
\* the universal list too, in non-decreasing order with the IDs it held, each
\* as often as before (an ID a list held twice it still holds twice); Sort
\* again changes nothing.
C8_SortOrdersKeepsIDs ==
    [][op'.name = "Sort" =>
         /\ DOMAIN idx' = DOMAIN idx
         /\ \A k \in DOMAIN idx :
                /\ NonDecreasing(idx'[k])
                /\ \A x \in Range(idx[k]) \cup Range(idx'[k]) :
                       Cardinality({i \in 1..Len(idx'[k]) : idx'[k][i] = x})
                         = Cardinality({i \in 1..Len(idx[k]) : idx[k][i] = x})
         /\ Sort(idx') = idx']_vars

\* After Sort, a per-trigram list that holds an ID twice and a universal
\* list that was not in order before.
C8_Witness ==
    /\ op.name = "Sort"
    /\ \E k \in (DOMAIN idx) \ {tAllDocIDs} :
           /\ Len(idx[k]) = 3
           /\ ~StrictlyAscending(idx[k])
    /\ ~NonDecreasing(log)

\* C9: Query and QueryTrigrams return a list of IDs, without an index out of
\* range, in every state of the index.
C9_QueryNeverPanics ==
    op.name \in {"Query", "QueryTrigrams"} => ~op.ret.panic

\* C10: on an index whose lists are sorted, Filter(docs, ts) for an ascending
\* duplicate-free docs returns the empty list if some trigram of ts is no
\* key, and else the IDs of docs that are in the list of every trigram of ts
\* whose list is not empty (a pruned trigram is passed over); it does not
\* panic, and leaves the array of docs, a postings list when the index passes
\* one, as it was.
C10_FilterIntersectsSkipsPruned ==
    op.name = "Filter" =>
        /\ ~op.ret.panic
        /\ op.ret.arg = op.docs
        /\ op.ret.ids =
              IF \E i \in 1..Len(op.ts) : op.ts[i] \notin DOMAIN idx
                 THEN <<>>
                 ELSE ascending({d \in Range(op.docs) :
                         \A i \in 1..Len(op.ts) :
                             idx[op.ts[i]] # <<>> => d \in Range(idx[op.ts[i]])})

\* A Filter through a pruned trigram and a trigram with a list, which drops
\* some of docs and keeps some.
C10_Witness ==
    /\ op.name = "Filter"
    /\ Len(op.ts) = 2
    /\ op.ts[1] \in DOMAIN idx /\ idx[op.ts[1]] = <<>>
    /\ op.ts[2] \in DOMAIN idx /\ idx[op.ts[2]] # <<>>
    /\ Len(op.ret.ids) >= 1
    /\ Len(op.ret.ids) < Len(op.docs)

====
